---- MODULE Spec2Model ----
(***************************************************************************)
(* Model of the two-level cache simulator of cachesim.cpp: a set           *)
(* associative L1 with an optional victim cache, backed by a set           *)
(* associative L2, driven one trace event at a time by cache_access and    *)
(* closed by complete_cache.                                               *)
(*                                                                         *)
(* A trace event is one atomic action: Cache::read / Cache::write run to   *)
(* completion, the recursive calls into L2 included (the program is        *)
(* single threaded and synchronous).  The operators below thread a record  *)
(* m = [sets, vc, stats, log, stamp] through the calls in the order the    *)
(* code executes them.  m.log is the list of steps of the event being      *)
(* executed; m.stamp is a reference model, not program state: the logical  *)
(* time of the last access to each block at each level.                    *)
(***************************************************************************)
EXTENDS Integers, Sequences, FiniteSets, TLC

\* ------------------------------------------------------------------ bounds
\* Longest trace explored (number of cache_access calls).
MaxEvents == 5

\* Addresses a trace event may carry.  With 16-byte blocks these are the
\* blocks 0..3, the second one addressed with a non-zero offset.
Addrs == {0, 24, 32, 48}

\* The setup_cache arguments explored (c1, b1, s1, v, c2, b2, s2).
Configs ==
  { \* direct-mapped L1 of 2 sets, no victim cache, L2 of the same shape
    [c1 |-> 5, b1 |-> 4, s1 |-> 0, v |-> 0, c2 |-> 5, b2 |-> 4, s2 |-> 0],
    \* fully associative L1 of 2 blocks, no victim cache, 2-way L2 of 2 sets
    [c1 |-> 5, b1 |-> 4, s1 |-> 1, v |-> 0, c2 |-> 6, b2 |-> 4, s2 |-> 1],
    \* direct-mapped L1 of 2 sets, victim cache of 1 block, L2 with 32-byte blocks
    [c1 |-> 5, b1 |-> 4, s1 |-> 0, v |-> 1, c2 |-> 6, b2 |-> 5, s2 |-> 0],
    \* one-block L1, victim cache of 2 blocks, fully associative L2 of 2 blocks
    [c1 |-> 4, b1 |-> 4, s1 |-> 0, v |-> 2, c2 |-> 5, b2 |-> 4, s2 |-> 1] }

\* ------------------------------------------------------------------- state
VARIABLES
  cfg,        \* the arguments of setup_cache (globals s1, s2, v; Cache fields)
  sets,       \* sets[id][index]: Set::blocks of Cache id, front = most recent
  vcBlocks,   \* VictimCache::blocks of L1's victim cache (<<>> when v = 0)
  stats,      \* the cache_stats_t counters
  phase,      \* "running" until complete_cache, then "done"
  result,     \* what complete_cache computed
  ev,         \* the trace event last executed
  log,        \* the steps of that event, in execution order
  stamp,      \* reference model: stamp[id][blockNumber] = time of last access
  ghost       \* history: wbWritesL2, dirtyEvictsL1 (counters), evictedSince,
              \* written, flushed

vars == <<cfg, sets, vcBlocks, stats, phase, result, ev, log, stamp, ghost>>

READ == "r"
WRITE == "w"
CacheID == {"L1", "L2"}

\* ------------------------------------------------------------------- Block
Block(valid, dirty, tag, address) ==
  [valid |-> valid, dirty |-> dirty, tag |-> tag, address |-> address]

\* Fault variant: an operator== that compares the tags alone.
Block_eq_tagOnly(a, other) == a.tag = other.tag

\* Block::operator==
Block_eq(a, other) == a.valid /\ other.valid /\ a.tag = other.tag

\* ------------------------------------------------------------- std::list
Back(blocks) == blocks[Len(blocks)]
PopBack(blocks) == SubSeq(blocks, 1, Len(blocks) - 1)
PushFront(blocks, block) == <<block>> \o blocks
PushBack(blocks, block) == Append(blocks, block)

\* list::remove(value): erases every element that compares equal to value.
ListRemove(blocks, block) ==
  LET keep(e) == ~Block_eq(e, block) IN SelectSeq(blocks, keep)

ListOf(n, block) == [i \in 1..n |-> block]

\* Index of the first element the scanning loop matches, 0 when none does.
FirstMatch(blocks, tag) ==
  LET hits == {i \in DOMAIN blocks : blocks[i].valid /\ blocks[i].tag = tag}
  IN IF hits = {} THEN 0 ELSE CHOOSE i \in hits : \A j \in hits : i <= j

\* -------------------------------------------------------- Cache geometry
Pow2(n) == 2 ^ n

CacheSize(c, id) == Pow2(IF id = "L1" THEN c.c1 ELSE c.c2)
BlockSize(c, id) == Pow2(IF id = "L1" THEN c.b1 ELSE c.b2)
Associativity(c, id) == Pow2(IF id = "L1" THEN c.s1 ELSE c.s2)
NumberOfSets(c, id) == (CacheSize(c, id) \div BlockSize(c, id)) \div Associativity(c, id)

TagOf(c, id, address) == (address \div BlockSize(c, id)) \div NumberOfSets(c, id)
IndexOf(c, id, address) == (address \div BlockSize(c, id)) % NumberOfSets(c, id)

\* The cache below: L1 is constructed over L2, L2 over nullptr.
Memory(id) == IF id = "L1" THEN "L2" ELSE "none"

\* Fault variant: testing the static Cache::V, which holds L1's v for both
\* caches, instead of the cache's own victimCache pointer.
HasVictim_staticV(c, id) == c.v # 0

\* Only L1 is constructed with v; L2 takes the default v = 0.
HasVictim(c, id) == id = "L1" /\ c.v # 0


\* --------------------------------------------------------- event log (ghost)
NoBlock == Block(FALSE, FALSE, 0, 0)

\* One step of the event being executed.  op is one of
\*   "read" / "write"  Cache::read / Cache::write entered at cache id
\*                     (flag = isWriteBack for "write")
\*   "hit"             the scan of the set found the block (block = the
\*                     block as found, flag = it was not at the front)
\*   "probe"           VictimCache::read(address), flag = it hit
\*   "evict"           blocks->pop_back() at cache id: block = the block
\*                     popped, flag = every slot of the set was valid,
\*                     lru = the tags the reference model holds oldest
\*   "vcinsert"        VictimCache::insert(address)
\*   "vcinvalid"       VictimCache::insertInvalid(), flag = it pushed a block
\*   "insert"          blocks->push_front(new block) at cache id
Step(op, id, address, flag, block, lru) ==
  [op |-> op, id |-> id, address |-> address, flag |-> flag, block |-> block, lru |-> lru]

Logged(m, step) == [m EXCEPT !.log = Append(@, step)]

\* ----------------------------------------------- reference model (ghost)
BlockNumbers(c, id) == {a \div BlockSize(c, id) : a \in Addrs}

MaxOf(S) == IF S = {} THEN 0 ELSE CHOOSE x \in S : \A y \in S : y <= x

\* The access to `address` at cache id becomes the latest access there.
Touch(c, m, id, address) ==
  LET bn == address \div BlockSize(c, id)
      latest == MaxOf({m.stamp[id][b] : b \in DOMAIN m.stamp[id]})
  IN [m EXCEPT !.stamp[id][bn] = latest + 1]

\* The tags of the blocks of `blocks` (set `index` of cache id) whose last
\* access is the oldest according to the reference model.
Oldest(c, m, id, index, blocks) ==
  LET bn(i) == blocks[i].tag * NumberOfSets(c, id) + index
      valid == {i \in DOMAIN blocks : blocks[i].valid}
  IN {blocks[i].tag : i \in {j \in valid :
         \A k \in valid : m.stamp[id][bn(j)] <= m.stamp[id][bn(k)]}}

AllValid(blocks) == \A i \in DOMAIN blocks : blocks[i].valid

\* Order-preserving renumbering of the time stamps (keeps them small).
Renumbered(st) ==
  [id \in DOMAIN st |-> [b \in DOMAIN st[id] |->
     IF st[id][b] = 0 THEN 0
     ELSE Cardinality({x \in DOMAIN st[id] : st[id][x] > 0 /\ st[id][x] <= st[id][b]})]]

\* ------------------------------------------------------------ VictimCache
\* VictimCache::VictimCache: v invalid blocks.
VictimCache_init(c) == ListOf(c.v, NoBlock)

\* Fault variant: a hit that leaves the entry in the victim cache.
VictimCache_read_keeps(c, m, address) ==
  LET tag == address \div BlockSize(c, "L1")
      i == FirstMatch(m.vc, tag)
      m1 == [m EXCEPT !.stats.accesses_vc = @ + 1]
  IN IF i # 0
     THEN [hit |-> TRUE,
           m |-> Logged([m1 EXCEPT !.stats.victim_hits = @ + 1],
                        Step("probe", "L1", address, TRUE, m.vc[i], {}))]
     ELSE [hit |-> FALSE,
           m |-> Logged(m1, Step("probe", "L1", address, FALSE, NoBlock, {}))]

\* VictimCache::read: [hit, m]
VictimCache_read(c, m, address) ==
  LET tag == address \div BlockSize(c, "L1")
      i == FirstMatch(m.vc, tag)
      m1 == [m EXCEPT !.stats.accesses_vc = @ + 1]
  IN IF i # 0
     THEN [hit |-> TRUE,
           m |-> Logged([m1 EXCEPT !.stats.victim_hits = @ + 1,
                                   !.vc = ListRemove(@, m.vc[i])],
                        Step("probe", "L1", address, TRUE, m.vc[i], {}))]
     ELSE [hit |-> FALSE,
           m |-> Logged(m1, Step("probe", "L1", address, FALSE, NoBlock, {}))]

\* Fault variant: push first, then drop from the front when over capacity.
VictimBlocks_insert_popsFront(c, blocks, address) ==
  LET pushed == PushFront(blocks, Block(TRUE, FALSE, address \div BlockSize(c, "L1"), address))
  IN IF Len(pushed) > c.v THEN Tail(pushed) ELSE pushed

\* Fault variant: dropping the back entry whether or not the list is full.
VictimBlocks_insert_alwaysPops(c, blocks, address) ==
  PushFront(PopBack(blocks), Block(TRUE, FALSE, address \div BlockSize(c, "L1"), address))

\* VictimCache::insert, on the list
VictimBlocks_insert(c, blocks, address) ==
  LET tag == address \div BlockSize(c, "L1")
      room == IF Len(blocks) = c.v THEN PopBack(blocks) ELSE blocks
  IN PushFront(room, Block(TRUE, FALSE, tag, address))

VictimCache_insert(c, m, address) ==
  Logged([m EXCEPT !.vc = VictimBlocks_insert(c, @, address)],
         Step("vcinsert", "L1", address, FALSE, NoBlock, {}))

\* VictimCache::insertInvalid
VictimCache_insertInvalid(c, m) ==
  Logged([m EXCEPT !.vc = IF Len(@) # c.v THEN PushBack(@, Block(FALSE, FALSE, 0, 0)) ELSE @],
         Step("vcinvalid", "L1", 0, Len(m.vc) # c.v, NoBlock, {}))

\* ------------------------------------------------------------------ Cache
RECURSIVE Cache_read(_, _, _, _), Cache_write(_, _, _, _, _),
          EvictLRU(_, _, _, _), FetchAndReplace(_, _, _, _, _, _)

\* Fault variant: counting every access in the L1 counter.
AccessCounter_alwaysL1(id) == "accesses"

AccessCounter(id) == IF id = "L1" THEN "accesses" ELSE "accesses_l2"
ReadMissCounter(id) == IF id = "L1" THEN "read_misses_l1" ELSE "read_misses_l2"
\* Fault variant: counting every write miss in the L1 counter.
WriteMissCounter_alwaysL1(id) == "write_misses_l1"

WriteMissCounter(id) == IF id = "L1" THEN "write_misses_l1" ELSE "write_misses_l2"
WriteBackCounter(id) == IF id = "L1" THEN "write_back_l1" ELSE "write_back_l2"

Counted(m, counter) == [m EXCEPT !.stats[counter] = @ + 1]

\* Cache::Cache: numberOfSets sets of `associativity` invalid blocks.
Cache_init(c, id) ==
  [i \in 0..(NumberOfSets(c, id) - 1) |-> ListOf(Associativity(c, id), NoBlock)]

\* Fault variant: a hit that leaves the block where it is.
Promote_inPlace(blocks, block) == blocks

\* Fault variant: a hit that removes the block and forgets to push it back.
Promote_removeOnly(blocks, block) == ListRemove(blocks, block)

\* The hit path of Cache::read and Cache::write: blocks->remove(block);
\* blocks->push_front(block) (Cache::write sets block.dirty in between)
Promote(blocks, block) == PushFront(ListRemove(blocks, block), block)

\* Fault variant: the read path inserting the block of the write path.
ReadFillBlock_dirty(tag, address) == Block(TRUE, TRUE, tag, address)

\* The block Cache::read inserts on a miss
ReadFillBlock(tag, address) == Block(TRUE, FALSE, tag, address)

\* Fault variant: the write path inserting the block of the read path.
WriteFillBlock_clean(tag, address) == Block(TRUE, FALSE, tag, address)

\* The block Cache::write inserts on a miss
WriteFillBlock(tag, address) == Block(TRUE, TRUE, tag, address)

\* Fault variant: writing back every valid block.
NeedsWriteBack_valid(c, id, block) == block.valid

\* Fault variant: no write-back when a victim cache takes the block.
NeedsWriteBack_deferred(c, id, block) == block.dirty /\ ~HasVictim(c, id)

\* "determine if writeback is necessary"
NeedsWriteBack(c, id, block) == block.dirty

\* Fault variant: the new block pushed at the back of the set.
InsertFront_atBack(m, id, index, newBlock) ==
  Logged([m EXCEPT !.sets[id][index] = PushBack(@, newBlock)],
         Step("insert", id, newBlock.address, FALSE, newBlock, {}))

\* blocks->push_front(new block), the last statement of a miss
InsertFront(m, id, index, newBlock) ==
  Logged([m EXCEPT !.sets[id][index] = PushFront(@, newBlock)],
         Step("insert", id, newBlock.address, FALSE, newBlock, {}))

\* "evict block that was LRU": pop the back of the set, write it back when
\* dirty, hand it to the victim cache when there is one.
EvictLRU(c, m, id, index) ==
  LET blocks == m.sets[id][index]
      block == Back(blocks)
      m1 == Logged([m EXCEPT !.sets[id][index] = PopBack(blocks)],
                   Step("evict", id, block.address, AllValid(blocks), block,
                        Oldest(c, m, id, index, blocks)))
      m2 == IF NeedsWriteBack(c, id, block)
            THEN IF Memory(id) # "none"
                 THEN Cache_write(c, Counted(m1, WriteBackCounter(id)),
                                  Memory(id), block.address, TRUE)
                 ELSE Counted(m1, WriteBackCounter(id))
            ELSE m1
  IN IF HasVictim(c, id)
     THEN IF block.valid
          THEN VictimCache_insert(c, m2, block.address)
          ELSE VictimCache_insertInvalid(c, m2)
     ELSE m2

\* Fault variant: evict and write back first, fetch afterwards.
EvictThenFetch(c, m, id, address, index, newBlock) ==
  LET m1 == EvictLRU(c, m, id, index)
      m2 == IF Memory(id) # "none" THEN Cache_read(c, m1, Memory(id), address) ELSE m1
  IN InsertFront(m2, id, index, newBlock)

\* A miss the victim cache did not absorb: bring the block in from the
\* cache below, then evict, then insert.
FetchAndReplace(c, m, id, address, index, newBlock) ==
  LET m1 == IF Memory(id) # "none" THEN Cache_read(c, m, Memory(id), address) ELSE m
  IN InsertFront(EvictLRU(c, m1, id, index), id, index, newBlock)

\* What follows the hit scan of Cache::read and Cache::write.
Miss(c, m, id, address, index, newBlock) ==
  LET pr == IF HasVictim(c, id) THEN VictimCache_read(c, m, address)
            ELSE [hit |-> FALSE, m |-> m]
  IN IF pr.hit
     THEN InsertFront(EvictLRU(c, pr.m, id, index), id, index, newBlock)
     ELSE FetchAndReplace(c, pr.m, id, address, index, newBlock)

\* Cache::read
Cache_read(c, m, id, address) ==
  LET tag == TagOf(c, id, address)
      index == IndexOf(c, id, address)
      blocks == m.sets[id][index]
      i == FirstMatch(blocks, tag)
      m0 == Touch(c, Logged(Counted(m, AccessCounter(id)),
                            Step("read", id, address, FALSE, NoBlock, {})), id, address)
  IN IF i # 0
     THEN Logged([m0 EXCEPT !.sets[id][index] = Promote(blocks, blocks[i])],
                 Step("hit", id, address, i # 1, blocks[i], {}))
     ELSE Miss(c, Counted(m0, ReadMissCounter(id)), id, address, index,
               ReadFillBlock(tag, address))

\* Cache::write
Cache_write(c, m, id, address, isWriteBack) ==
  LET tag == TagOf(c, id, address)
      index == IndexOf(c, id, address)
      blocks == m.sets[id][index]
      i == FirstMatch(blocks, tag)
      m0 == Touch(c, Logged(Counted(m, AccessCounter(id)),
                            Step("write", id, address, isWriteBack, NoBlock, {})), id, address)
  IN IF i # 0
     THEN Logged([m0 EXCEPT !.sets[id][index] =
                    Promote(blocks, [blocks[i] EXCEPT !.dirty = TRUE])],
                 Step("hit", id, address, i # 1, blocks[i], {}))
     ELSE Miss(c, Counted(m0, WriteMissCounter(id)), id, address, index,
               WriteFillBlock(tag, address))

\* ------------------------------------------------------------- the driver
ZeroStats ==
  [accesses |-> 0, reads |-> 0, writes |-> 0,
   read_misses_l1 |-> 0, write_misses_l1 |-> 0, write_back_l1 |-> 0,
   accesses_vc |-> 0, victim_hits |-> 0,
   accesses_l2 |-> 0, read_misses_l2 |-> 0, write_misses_l2 |-> 0, write_back_l2 |-> 0]

NoEvent == [type |-> "none", arg |-> 0]

\* The positions in a log of: the write-backs L2 received, the evictions from
\* L1 sets, the dirty ones among them.
WriteBacksAtL2(lg) ==
  {i \in DOMAIN lg : lg[i].op = "write" /\ lg[i].id = "L2" /\ lg[i].flag}
EvictsAtL1(lg) == {i \in DOMAIN lg : lg[i].op = "evict" /\ lg[i].id = "L1"}
DirtyEvictsAtL1(lg) == {i \in EvictsAtL1(lg) : lg[i].block.dirty}

\* History of the victim cache's donors: evictedSince[b] is -1 while block b
\* has not been evicted from L1 since its last access, else the number of
\* other valid blocks evicted from L1 sets since b's own eviction (counted up
\* to v).  Only kept when a victim cache is configured.
EvictedSinceAfter(c, since, lg, arg) ==
  LET accessed == [since EXCEPT ![arg \div BlockSize(c, "L1")] = -1]
      evicted == {lg[i].block.address \div BlockSize(c, "L1") :
                    i \in {j \in EvictsAtL1(lg) : lg[j].block.valid}}
  IN IF c.v = 0 \/ evicted = {} THEN accessed
     ELSE [b \in DOMAIN since |->
             IF b \in evicted THEN 0
             ELSE IF accessed[b] < 0 THEN -1
             ELSE IF accessed[b] < c.v THEN accessed[b] + 1 ELSE c.v]

\* History of the stores: `written` is the set of L1 block numbers a WRITE
\* trace event has addressed; `flushed` holds those of them for which, in an
\* event after their most recent WRITE, L2 evicted a dirty block covering them.
WrittenAfter(c, written, type, arg) ==
  IF type = WRITE THEN written \cup {arg \div BlockSize(c, "L1")} ELSE written

FlushedAfter(c, written, flushed, lg, type, arg) ==
  LET now == IF type = WRITE THEN {arg \div BlockSize(c, "L1")} ELSE {}
      covers(block, b) ==
        block.address \div BlockSize(c, "L2") = (b * BlockSize(c, "L1")) \div BlockSize(c, "L2")
      out == {b \in written \ now :
                \E i \in DOMAIN lg :
                  /\ lg[i].op = "evict" /\ lg[i].id = "L2"
                  /\ lg[i].block.valid /\ lg[i].block.dirty
                  /\ covers(lg[i].block, b)}
  IN (flushed \ now) \cup out

\* setup_cache
Init ==
  /\ cfg \in Configs
  /\ sets = [id \in CacheID |-> Cache_init(cfg, id)]
  /\ vcBlocks = VictimCache_init(cfg)
  /\ stats = ZeroStats
  /\ phase = "running"
  /\ result = [kind |-> "none", zero |-> {}, avg_access_time_l1 |-> 0]
  /\ ev = NoEvent
  /\ log = <<>>
  /\ stamp = [id \in CacheID |-> [b \in BlockNumbers(cfg, id) |-> 0]]
  /\ ghost = [wbWritesL2 |-> 0, dirtyEvictsL1 |-> 0,
              evictedSince |-> [b \in BlockNumbers(cfg, "L1") |-> -1],
              written |-> {}, flushed |-> {}]

\* cache_access
cache_access(type, arg) ==
  /\ phase = "running"
  /\ stats.reads + stats.writes < MaxEvents
  /\ LET m0 == [sets |-> sets, vc |-> vcBlocks, stats |-> stats,
                log |-> <<>>, stamp |-> stamp]
     IN \E m1 \in {IF type = READ
                     THEN Cache_read(cfg, Counted(m0, "reads"), "L1", arg)
                     ELSE Cache_write(cfg, Counted(m0, "writes"), "L1", arg, FALSE)} :
        /\ sets' = m1.sets
        /\ vcBlocks' = m1.vc
        /\ stats' = m1.stats
        /\ log' = m1.log
        /\ stamp' = Renumbered(m1.stamp)
        /\ ghost' = [wbWritesL2 |-> ghost.wbWritesL2 + Cardinality(WriteBacksAtL2(m1.log)),
                     dirtyEvictsL1 |-> ghost.dirtyEvictsL1 + Cardinality(DirtyEvictsAtL1(m1.log)),
                     evictedSince |-> EvictedSinceAfter(cfg, ghost.evictedSince, m1.log, arg),
                     written |-> WrittenAfter(cfg, ghost.written, type, arg),
                     flushed |-> FlushedAfter(cfg, ghost.written, ghost.flushed,
                                              m1.log, type, arg)]
  /\ ev' = [type |-> type, arg |-> arg]
  /\ UNCHANGED <<cfg, phase, result>>

ReadEvent == \E a \in Addrs : cache_access(READ, a)
WriteEvent == \E a \in Addrs : cache_access(WRITE, a)

\* The denominators of complete_cache that are zero when it divides by them.
ZeroDenominators(c, st) ==
  (IF st.accesses_l2 = 0 THEN {"accesses_l2"} ELSE {})
    \cup (IF c.v # 0 /\ st.accesses_vc = 0 THEN {"accesses_vc"} ELSE {})
    \cup (IF st.accesses = 0 THEN {"accesses"} ELSE {})

Milli(x) == 1000 * x

\* The arithmetic of complete_cache in thousandths (the code computes in float).
AvgAccessTimeL1(c, st) ==
  LET mp2 == Milli(500)
      ht2 == Milli(4) + 400 * c.s2
      mr2 == Milli(st.read_misses_l2 + st.write_misses_l2) \div st.accesses_l2
      aat2 == ht2 + (mr2 * mp2) \div Milli(1)
      mp1 == IF c.v = 0 THEN aat2
             ELSE ((Milli(st.accesses_vc - st.victim_hits) \div st.accesses_vc) * aat2)
                    \div Milli(1)
      ht1 == Milli(2) + 200 * c.s1
      mr1 == Milli(st.read_misses_l1 + st.write_misses_l1) \div st.accesses
  IN ht1 + (mr1 * mp1) \div Milli(1)

\* complete_cache.  It divides without looking at the denominators; a
\* division by zero is undefined behaviour, which the build resolves either
\* to a non-finite float (IEEE 754) or to a fault.
complete_cache ==
  /\ phase = "running"
  /\ phase' = "done"
  /\ LET zero == ZeroDenominators(cfg, stats)
     IN IF zero = {}
        THEN result' = [kind |-> "value", zero |-> {},
                        avg_access_time_l1 |-> AvgAccessTimeL1(cfg, stats)]
        ELSE \E k \in {"not_finite", "fault"} :
               result' = [kind |-> k, zero |-> zero, avg_access_time_l1 |-> 0]
  /\ UNCHANGED <<cfg, sets, vcBlocks, stats, ev, log, stamp, ghost>>

Next == ReadEvent \/ WriteEvent \/ complete_cache

Spec == Init /\ [][Next]_vars

\* =================================================================== claims
\* Helpers of the properties.
InsertsAtL1(lg) == {i \in DOMAIN lg : lg[i].op = "insert" /\ lg[i].id = "L1"}
HitsAtL1(lg) == {i \in DOMAIN lg : lg[i].op = "hit" /\ lg[i].id = "L1"}
ReadsAtL2(lg) == {i \in DOMAIN lg : lg[i].op = "read" /\ lg[i].id = "L2"}
ProbeHits(lg) == {i \in DOMAIN lg : lg[i].op = "probe" /\ lg[i].flag}
VictimInserts(lg) == {i \in DOMAIN lg : lg[i].op = "vcinsert"}
IsCallAtL2(s) == s.op \in {"read", "write"} /\ s.id = "L2"

\* The step from the unprimed to the primed state is a cache_access call.
IsEvent == stats'.reads + stats'.writes = stats.reads + stats.writes + 1

\* Cache id (with set contents ss) holds a valid block covering `address`.
Holds(ss, id, address) ==
  FirstMatch(ss[id][IndexOf(cfg, id, address)], TagOf(cfg, id, address)) # 0

L1Misses(st) == st.read_misses_l1 + st.write_misses_l1

\* ---------------------------------------------------------------------- C1
\* C1: after any sequence of trace events every set of L1 and of L2 holds
\* exactly `associativity` block slots.
C1_SetLength ==
  \A id \in CacheID : \A index \in DOMAIN sets[id] :
    Len(sets[id][index]) = Associativity(cfg, id)

\* A hit, a victim-cache swap and write-backs at both levels have happened.
C1_Witness ==
  /\ stats.accesses > L1Misses(stats)
  /\ stats.victim_hits > 0
  /\ stats.write_back_l1 > 0
  /\ stats.write_misses_l2 > 0

\* ---------------------------------------------------------------------- C2
\* C2 (as claimed): every valid block of an L1 set is covered by a valid
\* block of L2.
C2_Inclusive ==
  \A index \in DOMAIN sets["L1"] : \A k \in DOMAIN sets["L1"][index] :
    LET b == sets["L1"][index][k]
    IN b.valid => Holds(sets, "L2", b.address)

\* C2 (amended): inclusion holds at fill time only: after a trace event that
\* fetched its block from L2 and wrote nothing back to L2, the block is valid
\* in L1 and covered by a valid block of L2.
C2_InclusiveAtFill ==
  (ReadsAtL2(log) # {} /\ WriteBacksAtL2(log) = {})
    => Holds(sets, "L1", ev.arg) /\ Holds(sets, "L2", ev.arg)

\* An L1 miss that hit in L2 and evicted a valid clean block.
C2_Witness ==
  /\ ReadsAtL2(log) # {} /\ WriteBacksAtL2(log) = {}
  /\ \E i \in DOMAIN log : log[i].op = "hit" /\ log[i].id = "L2"
  /\ \E i \in EvictsAtL1(log) : log[i].block.valid
  /\ Holds(sets, "L2", ev.arg)

\* ---------------------------------------------------------------------- C3
WasDirty(id, index, tag) ==
  \E j \in DOMAIN sets[id][index] :
    LET b == sets[id][index][j] IN b.valid /\ b.dirty /\ b.tag = tag

WrittenAt(lg, id, index, tag) ==
  \E i \in DOMAIN lg :
    /\ lg[i].op = "write" /\ lg[i].id = id
    /\ IndexOf(cfg, id, lg[i].address) = index
    /\ TagOf(cfg, id, lg[i].address) = tag

\* C3: a block is dirty at a level only if it was dirty there before the
\* event or a write addressed it at that level during the event; a read miss
\* inserts its block clean and a read hit leaves the dirty flag as it was.
C3_DirtyOnlyByWrite ==
  [][ IsEvent =>
      /\ \A id \in CacheID : \A index \in DOMAIN sets'[id] :
           \A k \in DOMAIN sets'[id][index] :
             LET b == sets'[id][index][k]
             IN b.dirty => \/ WasDirty(id, index, b.tag)
                           \/ WrittenAt(log', id, index, b.tag)
      /\ ev'.type = READ =>
           LET index == IndexOf(cfg, "L1", ev'.arg)
               front == sets'["L1"][index][1]
           IN /\ front.valid /\ front.tag = TagOf(cfg, "L1", ev'.arg)
              /\ InsertsAtL1(log') # {} => ~front.dirty
              /\ HitsAtL1(log') # {} =>
                   (front.dirty <=> WasDirty("L1", index, front.tag))
    ]_vars

\* A read miss resolved by the victim cache while L1 holds a dirty block.
C3_Witness ==
  /\ ev.type = READ
  /\ ProbeHits(log) # {}
  /\ \E index \in DOMAIN sets["L1"] : \E k \in DOMAIN sets["L1"][index] :
       sets["L1"][index][k].dirty
  /\ ~sets["L1"][IndexOf(cfg, "L1", ev.arg)][1].dirty

\* ---------------------------------------------------------------------- C4
\* Fewer than `associativity` distinct other blocks of `address`'s L1 set were
\* accessed since the last access to `address` (reference model).
WithinWindow(address) ==
  LET bn == address \div BlockSize(cfg, "L1")
      n == NumberOfSets(cfg, "L1")
      st == stamp["L1"]
      later == {b \in DOMAIN st : b # bn /\ b % n = bn % n /\ st[b] > st[bn]}
  IN st[bn] > 0 /\ Cardinality(later) < Associativity(cfg, "L1")

\* C4: a READ of an address accessed before, with fewer than `associativity`
\* distinct other blocks of its L1 set accessed in between, hits in L1 and
\* leaves read_misses_l1 and write_misses_l1 unchanged.
C4_ReadWithinWindowHits ==
  [][ (IsEvent /\ ev'.type = READ /\ WithinWindow(ev'.arg)) =>
        /\ HitsAtL1(log') # {}
        /\ stats'.read_misses_l1 = stats.read_misses_l1
        /\ stats'.write_misses_l1 = stats.write_misses_l1
    ]_vars

\* A read hit on a block that another block of the set had moved back.
C4_Witness ==
  /\ ev.type = READ
  /\ \E i \in HitsAtL1(log) : log[i].flag

\* ---------------------------------------------------------------------- C5
\* C5: the write-back calls L2 has received, write_back_l1 and the dirty
\* blocks evicted from L1 sets are equal in number; within an event a dirty
\* L1 eviction is followed by exactly one write-back of that block's address
\* and a clean or invalid eviction by none.
C5_WriteBackConservation ==
  /\ ghost.wbWritesL2 = stats.write_back_l1
  /\ ghost.dirtyEvictsL1 = stats.write_back_l1
  /\ \A i \in EvictsAtL1(log) :
       LET wbs == WriteBacksAtL2(log)
       IN IF log[i].block.dirty
          THEN /\ Cardinality(wbs) = 1
               /\ \A j \in wbs : j > i /\ log[j].address = log[i].block.address
          ELSE wbs = {}
  /\ EvictsAtL1(log) = {} => WriteBacksAtL2(log) = {}

\* Write-backs have happened and the last event evicted a valid clean block.
C5_Witness ==
  /\ stats.write_back_l1 > 1
  /\ \E i \in EvictsAtL1(log) : log[i].block.valid /\ ~log[i].block.dirty

\* ---------------------------------------------------------------------- C6
\* The event in `lg` evicted a dirty block from an L1 set and the victim
\* cache took the block in.
AbsorbedDirty(lg) ==
  /\ cfg.v > 0
  /\ \E i \in EvictsAtL1(lg) : lg[i].block.dirty
  /\ VictimInserts(lg) # {}

\* C6 (as claimed): a dirty block evicted from an L1 set and absorbed by the
\* victim cache causes no write-back at that moment.
C6_WriteBackDeferred ==
  [][ (IsEvent /\ AbsorbedDirty(log')) =>
        /\ stats'.write_back_l1 = stats.write_back_l1
        /\ WriteBacksAtL2(log') = {}
    ]_vars

\* C6 (amended): a dirty block evicted from an L1 set is written back to L2
\* at once, before the victim cache takes it in as a clean block
\* (write_back_l1 and accesses_l2 increase); nothing is deferred, and L2 is
\* not called after the victim cache's insertion.
C6_WriteBackBeforeAbsorb ==
  [][ (IsEvent /\ AbsorbedDirty(log')) =>
        /\ stats'.write_back_l1 = stats.write_back_l1 + 1
        /\ stats'.accesses_l2 > stats.accesses_l2
        /\ \A i \in EvictsAtL1(log') :
             \E j \in WriteBacksAtL2(log') :
               \E k \in VictimInserts(log') :
                 /\ i < j /\ j < k
                 /\ log'[j].address = log'[i].block.address
                 /\ log'[k].address = log'[i].block.address
                 /\ \A n \in DOMAIN log' : n > k => log'[n].id = "L1"
        /\ \A n \in DOMAIN vcBlocks' : ~vcBlocks'[n].dirty
    ]_vars

\* The victim cache has just taken in a block that was dirty in L1.
C6_Witness ==
  /\ AbsorbedDirty(log)
  /\ vcBlocks[1].valid /\ ~vcBlocks[1].dirty
  /\ \E i \in EvictsAtL1(log) : vcBlocks[1].address = log[i].block.address

\* ---------------------------------------------------------------------- C7
\* The event in log evicted a valid block from an L1 set and the next event
\* accesses that block.
AccessesJustEvicted(address) ==
  /\ cfg.v >= 1
  /\ \E i \in EvictsAtL1(log) :
       /\ log[i].block.valid
       /\ log[i].block.address \div BlockSize(cfg, "L1") = address \div BlockSize(cfg, "L1")

\* C7 (as claimed): the access to the block just evicted hits in the victim
\* cache and leaves accesses_l2 unchanged.
C7_VictimHitNoL2Access ==
  [][ (IsEvent /\ AccessesJustEvicted(ev'.arg)) =>
        /\ stats'.victim_hits = stats.victim_hits + 1
        /\ stats'.accesses_l2 = stats.accesses_l2
    ]_vars

\* C7 (amended): the access to the block just evicted hits in the victim
\* cache and reads nothing from L2; accesses_l2 increases by one when the
\* block swapped out of the L1 set is dirty (its write-back) and is unchanged
\* otherwise.
C7_VictimHitNoL2Read ==
  [][ (IsEvent /\ AccessesJustEvicted(ev'.arg)) =>
        /\ stats'.victim_hits = stats.victim_hits + 1
        /\ ReadsAtL2(log') = {}
        /\ \A i \in EvictsAtL1(log') :
             stats'.accesses_l2 =
               stats.accesses_l2 + (IF log'[i].block.dirty THEN 1 ELSE 0)
        /\ Cardinality(EvictsAtL1(log')) = 1
    ]_vars

\* A victim-cache hit that swapped a dirty block out of the L1 set.
C7_Witness ==
  /\ ProbeHits(log) # {}
  /\ \E i \in EvictsAtL1(log) : log[i].block.dirty
  /\ stats.victim_hits > 0

\* ---------------------------------------------------------------------- C8
\* Every access so far went to a block of its own.
PairwiseDistinct ==
  Cardinality({b \in DOMAIN stamp["L1"] : stamp["L1"][b] > 0}) = stats.accesses

\* The block numbers the reference model holds as the n most recent in L1.
MostRecent(n) ==
  LET st == stamp["L1"]
  IN {b \in DOMAIN st : st[b] > 0 /\ Cardinality({x \in DOMAIN st : st[x] > st[b]}) < n}

\* C8: on every miss in a set whose slots are all valid the block evicted is
\* the one the reference model holds as least recently accessed; in a fully
\* associative L1 accessed with pairwise distinct blocks every access misses
\* and L1 holds exactly the blocks accessed last.
C8_ExactLRU ==
  /\ \A i \in DOMAIN log :
       (log[i].op = "evict" /\ log[i].flag) => log[i].lru = {log[i].block.tag}
  /\ (NumberOfSets(cfg, "L1") = 1 /\ PairwiseDistinct) =>
       /\ L1Misses(stats) = stats.accesses
       /\ \A b \in DOMAIN stamp["L1"] :
            Holds(sets, "L1", b * BlockSize(cfg, "L1"))
              <=> b \in MostRecent(Associativity(cfg, "L1"))

\* An eviction from a full two-way L1 set after hits, with a write-back
\* that evicts from a full two-way L2 set.
C8_Witness ==
  /\ Associativity(cfg, "L1") = 2 /\ Associativity(cfg, "L2") = 2
  /\ stats.accesses > L1Misses(stats)
  /\ \E i \in EvictsAtL1(log) : log[i].flag
  /\ stats.write_back_l1 > 0

\* ---------------------------------------------------------------------- C9
\* C9: complete_cache never divides by a counter that is zero.
C9_NoDivisionByZero == phase = "done" => result.zero = {}

\* --------------------------------------------------------------------- C10
L2Calls(lg) ==
  LET calls == SelectSeq(lg, IsCallAtL2)
  IN [i \in DOMAIN calls |-> <<calls[i].op, calls[i].address, calls[i].flag>>]

\* C10: when an L1 miss evicts a dirty block E, L2 sees read(A) and then
\* write(E.address, is_writeback) if the victim cache did not absorb the miss,
\* and the write-back alone if it did; L2 is done before L1 inserts A's block.
C10_FetchThenWriteBack ==
  \A i \in EvictsAtL1(log) :
    log[i].block.dirty =>
      /\ L2Calls(log) =
           IF ProbeHits(log) = {}
           THEN << <<"read", ev.arg, FALSE>>, <<"write", log[i].block.address, TRUE>> >>
           ELSE << <<"write", log[i].block.address, TRUE>> >>
      /\ \E k \in InsertsAtL1(log) :
           \A n \in DOMAIN log : log[n].id = "L2" => n < k

\* A miss the victim cache did not absorb, which fetched and wrote back.
C10_Witness ==
  /\ cfg.v > 0
  /\ ProbeHits(log) = {}
  /\ \E i \in EvictsAtL1(log) : log[i].block.dirty
  /\ Len(L2Calls(log)) = 2

\* --------------------------------------------------------------------- C11
\* The blocks of a list without the valid block carrying `tag`.
Others(blocks, tag) ==
  LET keep(e) == ~(e.valid /\ e.tag = tag) IN SelectSeq(blocks, keep)

\* C11: a trace event that hits in L1 increases reads or writes and accesses
\* by one, moves the matched block to the front of its set (dirty if the event
\* is a WRITE, else as it was) and leaves everything else as it is: the order
\* of the other blocks of the set, the other L1 sets, the victim cache, L2 and
\* every other counter.
C11_HitFrame ==
  [][ (IsEvent /\ HitsAtL1(log') # {}) =>
        LET index == IndexOf(cfg, "L1", ev'.arg)
            tag == TagOf(cfg, "L1", ev'.arg)
            old == sets["L1"][index]
            new == sets'["L1"][index]
            found == old[FirstMatch(old, tag)]
            kind == IF ev'.type = READ THEN "reads" ELSE "writes"
        IN /\ stats' = [stats EXCEPT ![kind] = @ + 1, !.accesses = @ + 1]
           /\ new[1] = [found EXCEPT !.dirty = (@ \/ ev'.type = WRITE)]
           /\ Tail(new) = Others(old, tag)
           /\ \A i \in DOMAIN sets["L1"] : i # index => sets'["L1"][i] = sets["L1"][i]
           /\ sets'["L2"] = sets["L2"]
           /\ vcBlocks' = vcBlocks
           /\ Len(log') = 2
    ]_vars

\* A WRITE that hit a clean block standing behind another valid block.
C11_Witness ==
  /\ ev.type = WRITE
  /\ \E i \in HitsAtL1(log) : log[i].flag /\ ~log[i].block.dirty
  /\ cfg.s1 = 1
  /\ sets["L1"][0][2].valid

\* --------------------------------------------------------------------- C12
\* C12: one cache_access call causes at most one fetch read and at most one
\* write-back write at L2 and nothing else there, so accesses_l2 increases by
\* at most 2 and accesses by exactly 1; L2 calls no further level (every step
\* of the event belongs to L1, its victim cache or L2, and L2 never probes).
C12_BoundedCascade ==
  [][ IsEvent =>
        /\ stats'.accesses = stats.accesses + 1
        /\ stats'.accesses_l2 <= stats.accesses_l2 + 2
        /\ stats'.accesses_l2 = stats.accesses_l2 + Len(L2Calls(log'))
        /\ Cardinality(ReadsAtL2(log')) <= 1
        /\ Cardinality(WriteBacksAtL2(log')) <= 1
        /\ Len(L2Calls(log')) = Cardinality(ReadsAtL2(log')) + Cardinality(WriteBacksAtL2(log'))
        /\ Cardinality({i \in DOMAIN log' : log'[i].op \in {"read", "write"} /\ log'[i].id = "L1"}) = 1
    ]_vars

\* An event that both fetched from L2 and wrote back to it, with L2 evicting
\* a dirty block of its own.
C12_Witness ==
  /\ Len(L2Calls(log)) = 2
  /\ stats.write_back_l2 > 0
  /\ \E i \in DOMAIN log : log[i].op = "evict" /\ log[i].id = "L2" /\ log[i].block.dirty

\* --------------------------------------------------------------------- C13
\* The victim cache holds a valid entry for L1 block number b.
InVictim(blocks, b) == FirstMatch(blocks, b) # 0

\* Block b was evicted from L1 and fewer than v other valid blocks were
\* evicted from L1 sets since.
RecentVictim(since, b) == since[b] >= 0 /\ since[b] < cfg.v

\* C13: a valid block taken in by the victim cache is still there as long as
\* it was not hit by a probe and fewer than v other valid blocks were evicted
\* from L1 after it; an access to such a block is a victim-cache hit.
C13_VictimFIFO ==
  [][ IsEvent =>
        /\ RecentVictim(ghost.evictedSince, ev'.arg \div BlockSize(cfg, "L1")) =>
             /\ ProbeHits(log') # {}
             /\ stats'.victim_hits = stats.victim_hits + 1
        /\ \A b \in DOMAIN ghost'.evictedSince :
             RecentVictim(ghost'.evictedSince, b) => InVictim(vcBlocks', b)
    ]_vars

\* A hit on the older of the two entries of a victim cache of two blocks.
C13_Witness ==
  /\ cfg.v = 2
  /\ \E i \in ProbeHits(log) : log[i].block.valid
  /\ \E b \in DOMAIN ghost.evictedSince : ghost.evictedSince[b] = 1
  /\ \E b \in DOMAIN ghost.evictedSince : ghost.evictedSince[b] = 2

\* --------------------------------------------------------------------- C14
ValidFirst(blocks) ==
  \A i, j \in DOMAIN blocks : (i < j /\ blocks[j].valid) => blocks[i].valid

EvictsAt(lg, id) == {i \in DOMAIN lg : lg[i].op = "evict" /\ lg[i].id = id}

\* C14: in every set of both levels the valid blocks stand before the invalid
\* ones and no invalid block is dirty; a valid block is evicted only from a
\* set without an invalid slot, and an eviction from a set that still has an
\* invalid slot counts no write-back (the write-back counters grow by the
\* dirty evictions alone).
C14_ValidBeforeInvalid ==
  [][ IsEvent =>
        /\ \A id \in CacheID : \A index \in DOMAIN sets'[id] :
             /\ ValidFirst(sets'[id][index])
             /\ \A k \in DOMAIN sets'[id][index] :
                  ~sets'[id][index][k].valid => ~sets'[id][index][k].dirty
        /\ \A i \in DOMAIN log' :
             log'[i].op = "evict" =>
               /\ log'[i].block.valid => log'[i].flag
               /\ ~log'[i].flag => (~log'[i].block.valid /\ ~log'[i].block.dirty)
        /\ stats'.write_back_l1 = stats.write_back_l1
             + Cardinality({i \in EvictsAt(log', "L1") : log'[i].flag /\ log'[i].block.dirty})
        /\ stats'.write_back_l2 = stats.write_back_l2
             + Cardinality({i \in EvictsAt(log', "L2") : log'[i].flag /\ log'[i].block.dirty})
    ]_vars

\* The second miss of a two-way L1 set, after a write: the slot evicted is
\* invalid although the set holds a dirty block.
C14_Witness ==
  /\ Associativity(cfg, "L1") = 2
  /\ \E i \in EvictsAtL1(log) : ~log[i].block.valid /\ ~log[i].flag
  /\ sets["L1"][0][2].valid /\ sets["L1"][0][2].dirty
  /\ stats.write_back_l1 = 0

\* --------------------------------------------------------------------- C15
\* C15: after a WRITE to address A the front block of A's L1 set is valid,
\* dirty and carries A's tag, whichever way the write was resolved (L1 hit,
\* victim-cache hit, fetch from L2); and a block that is dirty in an L1 set is
\* dirty after the next event unless that event removes it from the set.
C15_WriteLeavesDirtyFront ==
  [][ IsEvent =>
        /\ ev'.type = WRITE =>
             LET front == sets'["L1"][IndexOf(cfg, "L1", ev'.arg)][1]
             IN front.valid /\ front.dirty /\ front.tag = TagOf(cfg, "L1", ev'.arg)
        /\ \A index \in DOMAIN sets["L1"] : \A k \in DOMAIN sets["L1"][index] :
             LET b == sets["L1"][index][k]
             IN (b.valid /\ b.dirty) =>
                  \A n \in DOMAIN sets'["L1"][index] :
                    LET b2 == sets'["L1"][index][n]
                    IN (b2.valid /\ b2.tag = b.tag) => b2.dirty
    ]_vars

\* A WRITE resolved by a victim-cache hit, with another dirty block in L1.
C15_Witness ==
  /\ ev.type = WRITE
  /\ ProbeHits(log) # {}
  /\ sets["L1"][IndexOf(cfg, "L1", ev.arg)][1].dirty
  /\ \E index \in DOMAIN sets["L1"] :
       index # IndexOf(cfg, "L1", ev.arg) /\ sets["L1"][index][1].dirty

\* --------------------------------------------------------------------- C16
\* The write-backs of a log that missed in L2: the step after the call is the
\* eviction, not a hit.
MissedWriteBacks(lg) ==
  {j \in WriteBacksAtL2(lg) : j < Len(lg) /\ lg[j + 1].op = "evict" /\ lg[j + 1].id = "L2"}

\* C16: a write-back received by L2 counts one access; if it misses it counts
\* one write miss, evicts from the target set the block the reference model
\* holds least recently used (one more write_back_l2 iff that block is dirty)
\* and leaves the written-back block valid and dirty at the front.  Every write L2 receives is a write-back, so
\* write_misses_l2 grows on write-backs only; an L1 write miss fetches with a
\* read.
C16_WriteBackAtL2 ==
  [][ IsEvent =>
        /\ stats'.accesses_l2 = stats.accesses_l2 + Len(L2Calls(log'))
        /\ \A j \in DOMAIN log' :
             (log'[j].op = "write" /\ log'[j].id = "L2") => log'[j].flag
        /\ stats'.write_misses_l2 =
             stats.write_misses_l2 + Cardinality(MissedWriteBacks(log'))
        /\ stats'.write_back_l2 = stats.write_back_l2
             + Cardinality({i \in EvictsAt(log', "L2") : log'[i].block.dirty})
        /\ \A j \in WriteBacksAtL2(log') :
             LET a == log'[j].address
                 index == IndexOf(cfg, "L2", a)
                 front == sets'["L2"][index][1]
             IN /\ front.valid /\ front.dirty /\ front.tag = TagOf(cfg, "L2", a)
                /\ j < Len(log')
                /\ \/ log'[j + 1].op = "hit" /\ log'[j + 1].id = "L2"
                   \/ /\ j \in MissedWriteBacks(log')
                      /\ log'[j + 1].block.valid =>
                           IndexOf(cfg, "L2", log'[j + 1].block.address) = index
                      /\ log'[j + 1].flag => log'[j + 1].lru = {log'[j + 1].block.tag}
                      /\ log'[j + 2].op = "insert" /\ log'[j + 2].id = "L2"
                      /\ log'[j + 2].block = Block(TRUE, TRUE, TagOf(cfg, "L2", a), a)
        /\ (ev'.type = WRITE /\ Len(L2Calls(log')) > 0 /\ ProbeHits(log') = {}) =>
             L2Calls(log')[1] = <<"read", ev'.arg, FALSE>>
    ]_vars

\* A write-back that missed in L2 and evicted a dirty L2 block.
C16_Witness ==
  \E j \in MissedWriteBacks(log) : log[j + 1].block.dirty /\ log[j + 1].flag

\* --------------------------------------------------------------------- C17
Probes(lg) == {i \in DOMAIN lg : lg[i].op = "probe"}

\* C17: accesses_l2 = read_misses_l1 + write_misses_l1 - victim_hits +
\* write_back_l1; accesses_vc equals the L1 misses when v > 0, and accesses_vc
\* and victim_hits are 0 when v = 0; the victim cache is probed by the L1 miss
\* alone (at most once per event, right after the L1 scan), never by L2.
C17_CounterIdentity ==
  /\ stats.accesses_l2 = L1Misses(stats) - stats.victim_hits + stats.write_back_l1
  /\ cfg.v > 0 => stats.accesses_vc = L1Misses(stats)
  /\ cfg.v = 0 => (stats.accesses_vc = 0 /\ stats.victim_hits = 0)
  /\ \A i \in Probes(log) : i = 2 /\ log[1].id = "L1"
  /\ stats.accesses = stats.reads + stats.writes

\* Victim hits, L1 write-backs and L2 misses have all happened.
C17_Witness ==
  /\ stats.victim_hits > 0
  /\ stats.write_back_l1 > 0
  /\ stats.accesses > L1Misses(stats)
  /\ stats.read_misses_l2 + stats.write_misses_l2 > 2

\* --------------------------------------------------------------------- C18
NoTwoValidWithOneTag(blocks) ==
  \A i, j \in DOMAIN blocks :
    (i < j /\ blocks[i].valid /\ blocks[j].valid) => blocks[i].tag # blocks[j].tag

\* C18: between trace events no block number is held by two valid entries of
\* L1 and its victim cache together: no set and no victim cache has two valid
\* entries with one tag, and a block valid in an L1 set is not valid in the
\* victim cache.
C18_UniqueValidCopies ==
  /\ \A index \in DOMAIN sets["L1"] : NoTwoValidWithOneTag(sets["L1"][index])
  /\ NoTwoValidWithOneTag(vcBlocks)
  /\ \A index \in DOMAIN sets["L1"] : \A k \in DOMAIN sets["L1"][index] :
       LET b == sets["L1"][index][k]
       IN b.valid => ~InVictim(vcBlocks, b.tag * NumberOfSets(cfg, "L1") + index)

\* A victim cache full of valid entries right after a victim hit brought a
\* block back into L1.
C18_Witness ==
  /\ cfg.v = 2
  /\ ProbeHits(log) # {}
  /\ AllValid(vcBlocks)
  /\ Holds(sets, "L1", ev.arg)

\* --------------------------------------------------------------------- C19
\* C19: when an L1 miss hits in the victim cache the block evicted from the
\* back of the L1 set is valid; insertInvalid never finds the victim cache
\* below capacity, so it never changes it; after every event the victim cache
\* holds exactly v entries.
C19_VictimAlwaysFull ==
  /\ Len(vcBlocks) = cfg.v
  /\ ProbeHits(log) # {} =>
       \A i \in EvictsAtL1(log) : log[i].block.valid /\ log[i].flag
  /\ \A i \in DOMAIN log : log[i].op = "vcinvalid" => ~log[i].flag
  /\ ProbeHits(log) # {} => VictimInserts(log) # {}

\* A victim hit in a victim cache of two blocks that still holds one of its
\* initial invalid entries: the hit left one entry, the swap made it two.
C19_Witness ==
  /\ cfg.v = 2
  /\ ProbeHits(log) # {}
  /\ ~AllValid(vcBlocks)
  /\ Len(vcBlocks) = 2

\* --------------------------------------------------------------------- C20
\* Cache id holds a valid dirty block covering L1 block number b.
HoldsDirty(id, b) ==
  LET a == b * BlockSize(cfg, "L1")
      blocks == sets[id][IndexOf(cfg, id, a)]
      i == FirstMatch(blocks, TagOf(cfg, id, a))
  IN i # 0 /\ blocks[i].dirty

\* C20: no store is lost: for every block written by a WRITE trace event, in
\* every later state between events L1 holds it valid and dirty, or L2 holds a
\* valid dirty block covering it, or L2 has evicted a dirty block covering it
\* (counted in write_back_l2) after the most recent WRITE to it.
C20_NoStoreLost ==
  /\ \A b \in ghost.written :
       HoldsDirty("L1", b) \/ HoldsDirty("L2", b) \/ b \in ghost.flushed
  /\ ghost.flushed # {} => stats.write_back_l2 > 0

\* A written block that left both levels: neither L1 nor L2 holds it dirty
\* any more, while another written block is dirty in L2 only.
C20_Witness ==
  /\ \E b \in ghost.written :
       ~HoldsDirty("L1", b) /\ ~HoldsDirty("L2", b) /\ b \in ghost.flushed
  /\ \E b \in ghost.written :
       ~HoldsDirty("L1", b) /\ HoldsDirty("L2", b) /\ b \notin ghost.flushed
====
